---- MODULE Spec2Model ----
(***************************************************************************)
(* State-machine model of the RTSP detector service of src/main.py:        *)
(* the CentroidTracker (update / _save_detection) and the per-stream       *)
(* worker process_stream_api with the HTTP handlers that touch the stream  *)
(* registry active_streams.                                                *)
(*                                                                         *)
(* Numbers: confidences are in hundredths (0.4 is 40); box coordinates are *)
(* integers whose corner sums are even, so that the centroid               *)
(* ((x1+x2)/2, (y1+y2)/2) is an integer pair; Euclidean distances are      *)
(* compared through their squares (sqrt is monotone).                      *)
(***************************************************************************)
EXTENDS Integers, Sequences, FiniteSets, TLC

VARIABLES
    cfg,            \* tracker configuration, fixed at construction (main.py:194-197)
                    \*   plus model_config["tracking"]["enabled"]
    next_id,        \* CentroidTracker.next_id
    centroids,      \* CentroidTracker.centroids : id -> (centroid, age, hits)
    track_history,  \* CentroidTracker.track_history : id -> list of centroids
    detections,     \* CentroidTracker.detections : the DetectionEvents saved so far
    frame_count,    \* CentroidTracker.frame_count
    result,         \* outcome of the last update call: raised / assigned_ids
    created,        \* history variable: ids of created tracks, in creation order
    all_centroids,  \* history variable: id -> every centroid ever given to the live track
    misses,         \* history variable: id -> update cycles since the live track's last match
    hits_ever,      \* history variable: id -> hits of every track created, evicted or not
    fed,            \* history variable: the detection lists fed so far (scenario runs)
    active_streams, \* the registry active_streams : stream_id -> status record
    pc,             \* per worker: where process_stream_api stands
    stream_of,      \* per worker: its stream_id
    reconnect_count,\* per worker: the local reconnect_count
    cap,            \* per worker: the local cap (the capture)
    config_of,      \* per worker: its stream_config
    stream_frame_count, \* per worker: the local frame_count of process_stream_api
    model_lock,     \* per worker: the local model_lock (0 before get_model returns)
    snapshot,       \* the record last returned by get_stream_status
    opens,          \* history variable, per worker: captures it has tried to open
    open_run,       \* history variable, per worker: failed opens since its last successful one
    sleeps,         \* history variable, per worker: reconnect sleeps it has made
    last_read,      \* history variable, per worker: outcome of its last cap.read()
    models,         \* ModelManager.models : model name -> the worker that loaded it
    model_locks,    \* ModelManager.model_locks : model name -> lock, named by its maker
    detection_results, \* the global detection_results : stream_id -> list of events (main.py:174)
    cleared,        \* history variable: the streams cleared since their last accepted start
    not_found,      \* history variable: the stream of the last stop request answered 404
    frame_config,   \* model_config and save_config of the stream started (main.py:401-410)
    daily_frame_count, \* per worker: the local daily_frame_count of process_stream_api
    last_day,       \* per worker: the local last_day, as a number of days
    detector_calls, \* history variable, per worker: calls of the detector it has made
    memory_cache,   \* CacheManager.memory_cache : key -> expires_at
    memory_lock,    \* CacheManager.memory_lock : the thread that holds it, 0 when free
    last_cleanup,   \* CacheManager.last_cleanup
    now,            \* the clock read by the cache manager
    cache_pc,       \* per thread: where its call of CacheManager.set stands
    lock_file,      \* the inode the path of the lock file names, 0 when there is none
    inodes,         \* the inodes made so far for the lock file
    lock_fd,        \* per FileLock: the inode its lock_fd is open on, 0 when it has none
    fl_pc,          \* per FileLock: where it stands between __enter__ and __exit__
    save_pc,        \* per thread: where its call of StorageManager.save_event stands
    csv_exists,     \* the CSV file of the day exists
    csv_rows        \* rows written to the CSV file of the day

trackerVars == <<cfg, next_id, centroids, track_history, detections, frame_count,
                 result, created, all_centroids, misses, hits_ever, fed>>

streamVars == <<active_streams, pc, stream_of, reconnect_count, cap>>

workerVars == <<config_of, stream_frame_count, model_lock, snapshot, opens,
                open_run, sleeps, last_read, models, model_locks,
                detection_results, cleared, not_found>>

frameVars == <<frame_config, daily_frame_count, last_day, detector_calls>>

cacheVars == <<memory_cache, memory_lock, last_cleanup, now, cache_pc>>

fileVars == <<lock_file, inodes, lock_fd, fl_pc, save_pc, csv_exists, csv_rows>>

sideVars == <<frameVars, cacheVars, fileVars>>

vars == <<trackerVars, streamVars, workerVars, sideVars>>

----------------------------------------------------------------------------
(* Bounds of the model *)

\* update calls explored on one tracker
MaxFrames == 6
\* track ids handed out by one tracker
MaxIds == 4

\* update calls of the scenario of the specification
MaxScenarioFrames == 6
\* update calls explored on the long-lived track
MaxHistFrames == 34

\* calls of process_stream_api launched
MaxWorkers == 2
\* rtsp_config["reconnect_attempts"] of the streams
ReconnectAttempts == 2
\* frames a worker's source delivers before its reads fail
MaxStreamFrames == 1
\* frames the source of a stream delivers to a worker that feeds its tracker
MaxTrackedFrames == 2
\* update calls explored on the tracker fed detections of low confidence
MaxFilterFrames == 4
\* threads that call CacheManager.set
MaxCallers == 2
\* ticks of the clock the cache manager reads
MaxTicks == 4
\* CACHE_CONFIG["cleanup_interval"], in ticks
CleanupInterval == 2
\* CACHE_CONFIG["default_ttl"], in ticks
DefaultTtl == 1
\* CACHE_CONFIG["memory_cache_size"]
CacheSize == 1
\* threads that call StorageManager.save_event
MaxSavers == 2
\* lock files made for one CSV file
MaxInodes == 6
\* frames the source delivers to the worker whose frame decimation is explored
MaxDecimatedFrames == 4
\* changes of day that worker lives through
MaxDays == 1

(* Program constants *)

\* length kept of a track's history (main.py:249-250)
HistoryLimit == 30

----------------------------------------------------------------------------
(* Small helpers *)

MaxOf(S) == CHOOSE x \in S : \A y \in S : y <= x

MinOf(S) == CHOOSE x \in S : \A y \in S : x <= y

\* s[-n:] of Python
LastN(s, n) == IF Len(s) <= n THEN s ELSE SubSeq(s, Len(s) - n + 1, Len(s))

\* a local variable of update that may not have been assigned yet
Unbound == [bound |-> FALSE, val |-> 0]

Bound(v) == [bound |-> TRUE, val |-> v]

EmptyMap == [i \in {} |-> 0]

----------------------------------------------------------------------------
(* CentroidTracker.update, main.py:201-259 *)

\* main.py:212
Centroid(box) == <<(box[1] + box[3]) \div 2, (box[2] + box[4]) \div 2>>

\* square of the distance of main.py:232-233
DistSq(a, b) == (a[1] - b[1]) * (a[1] - b[1]) + (a[2] - b[2]) * (a[2] - b[2])

\* a filter that lets every detection through
QualifiesAll(c, d) == TRUE

\* main.py:210
Qualifies(c, d) == d.conf >= c.min_confidence

\* main.py:206-213: the detections that pass the confidence filter, in input order
NewCentroids(c, boxes) ==
    LET q == SelectSeq(boxes, LAMBDA d : Qualifies(c, d))
    IN  [i \in 1..Len(q) |->
            [centroid |-> Centroid(q[i].box), box |-> q[i].box,
             confidence |-> q[i].conf, class_id |-> q[i].cls,
             save_ok |-> q[i].save_ok]]

\* main.py:217: the eviction test, on the age before this cycle's increment
Expired(c, age) == age > c.max_age

\* main.py:216-223: evict, then age every surviving track by one
AgeTracks(c, cents) ==
    [id \in {i \in DOMAIN cents : ~Expired(c, cents[i].age)} |->
        [cents[id] EXCEPT !.age = @ + 1]]

\* main.py:216: the loop variable hits after the loop: that of the last item
\* of the dictionary (insertion order is id order), evicted or not
HitsAfterLoop(cents, before) ==
    IF DOMAIN cents = {} THEN before ELSE Bound(cents[MaxOf(DOMAIN cents)].hits)

\* the test of main.py:234 with <= for <
CandidatesInclusive(c, cents, p) ==
    {i \in DOMAIN cents :
        DistSq(p, cents[i].centroid) <= c.max_distance * c.max_distance}

\* main.py:234: the tracks within max_distance of p
Candidates(c, cents, p) ==
    {i \in DOMAIN cents :
        DistSq(p, cents[i].centroid) < c.max_distance * c.max_distance}

\* main.py:231-236: the first track, in id order, at minimum distance
MatchedId(c, cents, p) ==
    LET cand == Candidates(c, cents, p)
        best == {i \in cand : \A j \in cand :
                    DistSq(p, cents[i].centroid) <= DistSq(p, cents[j].centroid)}
    IN  MinOf(best)

\* a slip of main.py:239: the id taken from the number of live tracks
FreshIdReused(st) == Cardinality(DOMAIN st.centroids)

\* main.py:239
FreshId(st) == st.next_id

\* a slip of main.py:250: the slice [:30], which keeps the oldest entries
TruncateOldest(h) == IF Len(h) <= HistoryLimit THEN h ELSE SubSeq(h, 1, HistoryLimit)

\* main.py:249-250
Truncate(h) == LastN(h, HistoryLimit)

\* main.py:245: the matched track keeps its age
MatchedTrack(old, p) == [centroid |-> p, age |-> old.age, hits |-> old.hits + 1]

\* main.py:240
NewTrack(p) == [centroid |-> p, age |-> 0, hits |-> 1]

\* main.py:255: the value of the local hits tested after the association of one
\* detection: the matched track's hits before the increment (main.py:244), or
\* whatever the loops left in it
SaveHits(cents, matched, id, before) ==
    IF matched THEN Bound(cents[id].hits) ELSE HitsAfterLoop(cents, before)

\* main.py:255
ShouldSave(c, h) == c.enabled /\ h.bound /\ h.val >= c.min_hits

\* main.py:255: reading the unassigned local raises UnboundLocalError
ReadRaises(c, h) == c.enabled /\ ~h.bound

\* a failed save whose exception is not caught
SaveFailureEscapes(n) == ~n.save_ok

\* main.py:262-317: the whole body of _save_detection is in a try block whose
\* handler logs the exception, so no failure of a save leaves the method
SaveRaises(n) == FALSE

\* main.py:294-313: the record appended by _save_detection; hits and frame are
\* instrumentation (the track's hits and the tracker's frame_count at that time)
Event(id, n, cents, frame) ==
    [object_id |-> id, class_id |-> n.class_id, confidence |-> n.confidence,
     hits |-> cents[id].hits, frame |-> frame]

\* main.py:227-257: one iteration of the association loop
Associate(c, st, n) ==
    LET p       == n.centroid
        cents   == st.centroids
        matched == Candidates(c, cents, p) # {}
        id      == IF matched THEN MatchedId(c, cents, p) ELSE FreshId(st)
        h       == SaveHits(cents, matched, id, st.hits)
        cents2  == IF matched
                   THEN [cents EXCEPT ![id] = MatchedTrack(cents[id], p)]
                   ELSE [i \in DOMAIN cents \cup {id} |->
                            IF i = id THEN NewTrack(p) ELSE cents[i]]
        hist2   == [i \in DOMAIN cents2 |->
                      IF i # id THEN st.track_history[i]
                      ELSE IF matched
                           THEN Truncate(Append(st.track_history[id], p))
                           ELSE Truncate(<<p>>)]
        all2    == [i \in DOMAIN cents2 |->
                      IF i # id THEN st.all_centroids[i]
                      ELSE IF matched THEN Append(st.all_centroids[id], p)
                           ELSE <<p>>]
        misses2 == [i \in DOMAIN cents2 |-> IF i = id THEN 0 ELSE st.misses[i]]
        ever2   == [i \in DOMAIN st.hits_ever \cup {id} |->
                      IF i = id THEN cents2[id].hits ELSE st.hits_ever[i]]
        saving  == ShouldSave(c, h)
    IN  [next_id       |-> IF matched THEN st.next_id ELSE st.next_id + 1,
         centroids     |-> cents2,
         track_history |-> hist2,
         detections    |-> IF saving /\ n.save_ok
                           THEN Append(st.detections,
                                       Event(id, n, cents2, st.frame_count))
                           ELSE st.detections,
         frame_count   |-> st.frame_count,
         hits          |-> h,
         assigned      |-> Append(st.assigned,
                                  [id |-> id, box |-> n.box,
                                   confidence |-> n.confidence,
                                   class_id |-> n.class_id]),
         raised        |-> ReadRaises(c, h) \/ (saving /\ SaveRaises(n)),
         unsaved       |-> IF saving /\ ~n.save_ok THEN st.unsaved + 1
                           ELSE st.unsaved,
         assoc         |-> Append(st.assoc,
                                  [id |-> id, centroid |-> p,
                                   tracks |-> [i \in DOMAIN cents |->
                                                  cents[i].centroid],
                                   next_id |-> st.next_id]),
         created       |-> IF matched THEN st.created ELSE Append(st.created, id),
         all_centroids |-> all2,
         misses        |-> misses2,
         hits_ever     |-> ever2]

\* main.py:227: the loop over new_centroids; an exception ends the call
RECURSIVE AssociateAll(_, _, _)
AssociateAll(c, st, ns) ==
    IF ns = <<>> \/ st.raised THEN st
    ELSE AssociateAll(c, Associate(c, st, Head(ns)), Tail(ns))

\* main.py:201-259: the whole call, on the tracker state t
Update(c, t, boxes) ==
    LET aged == AgeTracks(c, t.centroids)
        st0  == [next_id       |-> t.next_id,
                 centroids     |-> aged,
                 track_history |-> [i \in DOMAIN aged |-> t.track_history[i]],
                 detections    |-> t.detections,
                 frame_count   |-> t.frame_count + 1,
                 hits          |-> HitsAfterLoop(t.centroids, Unbound),
                 assigned      |-> <<>>,
                 raised        |-> FALSE,
                 unsaved       |-> 0,
                 assoc         |-> <<>>,
                 created       |-> t.created,
                 all_centroids |-> [i \in DOMAIN aged |-> t.all_centroids[i]],
                 misses        |-> [i \in DOMAIN aged |-> t.misses[i] + 1],
                 hits_ever     |-> t.hits_ever]
    IN  AssociateAll(c, st0, NewCentroids(c, boxes))

Tracker ==
    [next_id |-> next_id, centroids |-> centroids, track_history |-> track_history,
     detections |-> detections, frame_count |-> frame_count,
     created |-> created, all_centroids |-> all_centroids, misses |-> misses,
     hits_ever |-> hits_ever]

\* what the caller of update sees: the exception, or the returned
\* assigned_ids; unsaved (the saves of the call that failed) and assoc (for
\* each detection associated: its centroid, the id it was given, and the
\* centroids of the tracks and next_id as they were at that moment) are
\* instrumentation
Outcome(st) ==
    [raised |-> st.raised, assigned |-> IF st.raised THEN <<>> ELSE st.assigned,
     unsaved |-> st.unsaved, assoc |-> st.assoc]

\* one call of update with the detections boxes
UpdateCall(boxes) ==
    LET st == Update(cfg, Tracker, boxes)
    IN  /\ st.next_id <= MaxIds
        /\ next_id' = st.next_id
        /\ centroids' = st.centroids
        /\ track_history' = st.track_history
        /\ detections' = st.detections
        /\ frame_count' = st.frame_count
        /\ result' = Outcome(st)
        /\ created' = st.created
        /\ all_centroids' = st.all_centroids
        /\ misses' = st.misses
        /\ hits_ever' = st.hits_ever
        /\ UNCHANGED cfg

----------------------------------------------------------------------------
(* Inputs *)

\* boxes with centroids (10,10), (12,11) and (13,14): the first two and the
\* last two are less than 5 apart, the first and the last exactly 5
BoxA == <<8, 8, 12, 12>>

BoxB == <<10, 9, 14, 13>>

BoxC == <<11, 12, 15, 16>>

Det(b, cf, cl, ok) == [box |-> b, conf |-> cf, cls |-> cl, save_ok |-> ok]

\* detections: class 0 is person, class 2 is car (main.py:30-33)
DetA == Det(BoxA, 50, 0, TRUE)

DetB == Det(BoxB, 50, 0, TRUE)

DetC == Det(BoxC, 50, 2, TRUE)

\* below min_confidence
DetLow == Det(BoxB, 30, 0, TRUE)

\* a detection whose annotated frame cannot be saved
DetUnsaved == Det(BoxA, 50, 2, FALSE)

\* the detection lists of a frame: none, one or two detections
DetLists ==
    {<<>>, <<DetA>>, <<DetB>>, <<DetC>>, <<DetA, DetB>>, <<DetC, DetA>>,
     <<DetB, DetA>>, <<DetLow, DetB>>, <<DetUnsaved>>}

Config(md, mc, ma, mh, en) ==
    [max_distance |-> md, min_confidence |-> mc, max_age |-> ma, min_hits |-> mh,
     enabled |-> en]

Configs == {Config(5, 40, 2, 2, TRUE), Config(5, 40, 1, 3, TRUE),
            Config(5, 40, 1, 2, FALSE)}

----------------------------------------------------------------------------
(* The stream workers and the handlers of the registry, main.py:396-694.   *)
(* A worker is one call of process_stream_api, run on its own thread; the  *)
(* handlers run on the event loop.  A step is one access to the registry   *)
(* or to the capture.                                                      *)

Streams == {"s1", "s2"}

Workers == 1..MaxWorkers

\* f[k] = v of a Python dict
Put(f, k, v) == [x \in DOMAIN f \cup {k} |-> IF x = k THEN v ELSE f[x]]

\* the part of a StreamConfig (main.py:113-145) that decides how the worker
\* starts: model_config["model_name"], and whether every id of
\* model_config["classes"] is a key of YOLO_CLASSES
StreamConfigOf(m, known) == [model_name |-> m, classes_known |-> known]

\* main.py:118-120: the default model_config
DefaultStream == StreamConfigOf("yolov8n.pt", TRUE)

OtherModelStream == StreamConfigOf("yolov8s.pt", TRUE)

UnknownModelStream == StreamConfigOf("missing.pt", TRUE)

UnknownClassStream == StreamConfigOf("yolov8n.pt", FALSE)

\* main.py:388: YOLO(model_name) returns a model, or raises
Loadable(m) == m # "missing.pt"

\* main.py:430-444: the entry a worker registers; task_id tells the entries
\* of two workers apart (each start is one task, named here by its worker);
\* detections is the counter of the one class of the stream, last_detection
\* is 0 for None and otherwise the number of the detection it is the time of
NewEntry(w) ==
    [status |-> "connecting", detections |-> 0, last_detection |-> 0, task_id |-> w]

Present(s) == s \in DOMAIN active_streams

\* active_streams[s]["status"] = st
WriteStatus(s, st) ==
    active_streams' = [active_streams EXCEPT ![s] = [@ EXCEPT !.status = st]]

\* main.py:628-629: the answer to a status request for an unknown stream
NotFound == [found |-> FALSE, status |-> "none", detections |-> 0, last_detection |-> 0]

\* main.py:631-639: the StreamStatus built from a registry entry
StreamStatus(info) ==
    [found |-> TRUE, status |-> info.status, detections |-> info.detections,
     last_detection |-> info.last_detection]

\* no worker has been launched, the registry and the detection results are
\* empty (main.py:173-174) and no model is loaded (main.py:380-381)
InitStreams ==
    /\ active_streams = EmptyMap
    /\ pc = [w \in Workers |-> "idle"]
    /\ stream_of = [w \in Workers |-> "none"]
    /\ reconnect_count = [w \in Workers |-> 0]
    /\ cap = [w \in Workers |-> "none"]
    /\ config_of = [w \in Workers |-> DefaultStream]
    /\ stream_frame_count = [w \in Workers |-> 0]
    /\ model_lock = [w \in Workers |-> 0]
    /\ snapshot = NotFound
    /\ opens = [w \in Workers |-> 0]
    /\ open_run = [w \in Workers |-> 0]
    /\ sleeps = [w \in Workers |-> 0]
    /\ last_read = [w \in Workers |-> "none"]
    /\ models = EmptyMap
    /\ model_locks = EmptyMap
    /\ detection_results = EmptyMap
    /\ cleared = {}
    /\ not_found = "none"

\* main.py:597: a start is refused only for a stream whose status is running
StartRefused(s) == Present(s) /\ active_streams[s].status = "running"

\* main.py:584-608, start_detection for one stream with configuration c: the
\* next free worker is launched as a background task
StartDetection(s, c) ==
    /\ ~StartRefused(s)
    /\ \E w \in Workers :
          /\ pc[w] = "idle"
          /\ \A v \in Workers : v < w => pc[v] # "idle"
          /\ pc' = [pc EXCEPT ![w] = "register"]
          /\ stream_of' = [stream_of EXCEPT ![w] = s]
          /\ config_of' = [config_of EXCEPT ![w] = c]
    /\ cleared' = cleared \ {s}
    /\ UNCHANGED <<active_streams, reconnect_count, cap, stream_frame_count,
                   model_lock, snapshot, opens, open_run, sleeps, last_read,
                   models, model_locks, detection_results, not_found, sideVars,
                   trackerVars>>

\* main.py:423-444: the comprehension of line 432 raises KeyError, before the
\* entry is stored, when a class id is not a key of YOLO_CLASSES
Register(w) ==
    /\ pc[w] = "register"
    /\ stream_frame_count' = [stream_frame_count EXCEPT ![w] = 0]
    /\ IF config_of[w].classes_known
       THEN /\ active_streams' = Put(active_streams, stream_of[w], NewEntry(w))
            /\ pc' = [pc EXCEPT ![w] = "get_model"]
       ELSE /\ UNCHANGED active_streams
            /\ pc' = [pc EXCEPT ![w] = "crashed"]
    /\ UNCHANGED <<stream_of, reconnect_count, cap, config_of, model_lock,
                   snapshot, opens, open_run, sleeps, last_read, models,
                   model_locks, detection_results, cleared, not_found,
                   sideVars, trackerVars>>

\* one lock for every model name
SharedLock(w) == 1

\* main.py:389: threading.Lock() makes a new lock at every call; the lock is
\* named by the worker whose call made it
NewLock(w) == w

\* main.py:451-456 with get_model (main.py:383-394) run without interruption:
\* it returns the lock of the model, loading the model first when it is not
\* loaded, or raises out of the worker
GetModel(w) ==
    LET m == config_of[w].model_name
    IN  /\ pc[w] = "get_model"
        /\ reconnect_count' = [reconnect_count EXCEPT ![w] = 0]
        /\ IF m \notin DOMAIN models /\ ~Loadable(m)
           THEN /\ pc' = [pc EXCEPT ![w] = "crashed"]
                /\ UNCHANGED <<models, model_locks, model_lock>>
           ELSE IF m \notin DOMAIN models
           THEN /\ models' = Put(models, m, w)
                /\ model_locks' = Put(model_locks, m, NewLock(w))
                /\ model_lock' = [model_lock EXCEPT ![w] = NewLock(w)]
                /\ pc' = [pc EXCEPT ![w] = "loop"]
           ELSE IF m \in DOMAIN model_locks
           THEN /\ model_lock' = [model_lock EXCEPT ![w] = model_locks[m]]
                /\ pc' = [pc EXCEPT ![w] = "loop"]
                /\ UNCHANGED <<models, model_locks>>
           ELSE /\ pc' = [pc EXCEPT ![w] = "crashed"]
                /\ UNCHANGED <<models, model_locks, model_lock>>
        /\ UNCHANGED <<active_streams, stream_of, cap, config_of,
                       stream_frame_count, snapshot, opens, open_run, sleeps,
                       last_read, detection_results, cleared, not_found,
                       sideVars, trackerVars>>

\* main.py:384, get_model step by step: the first test
GetModelCheck(w) ==
    /\ pc[w] = "get_model"
    /\ pc' = [pc EXCEPT ![w] =
                IF config_of[w].model_name \in DOMAIN models THEN "gm_return"
                ELSE "gm_recheck"]
    /\ UNCHANGED <<active_streams, stream_of, reconnect_count, cap, config_of,
                   stream_frame_count, model_lock, snapshot, opens, open_run,
                   sleeps, last_read, models, model_locks, detection_results,
                   cleared, not_found, sideVars, trackerVars>>

\* main.py:385-386: the lock of line 385 is a new lock made by this call, so
\* it is free and taking it excludes no one; then the second test
GetModelRecheck(w) ==
    /\ pc[w] = "gm_recheck"
    /\ pc' = [pc EXCEPT ![w] =
                IF config_of[w].model_name \in DOMAIN models THEN "gm_return"
                ELSE "gm_load"]
    /\ UNCHANGED <<active_streams, stream_of, reconnect_count, cap, config_of,
                   stream_frame_count, model_lock, snapshot, opens, open_run,
                   sleeps, last_read, models, model_locks, detection_results,
                   cleared, not_found, sideVars, trackerVars>>

\* main.py:387-388, 391-393: the model is loaded and stored, or the error is
\* raised again, out of get_model and of the worker
GetModelLoad(w) ==
    /\ pc[w] = "gm_load"
    /\ IF Loadable(config_of[w].model_name)
       THEN /\ models' = Put(models, config_of[w].model_name, w)
            /\ pc' = [pc EXCEPT ![w] = "gm_set_lock"]
       ELSE /\ UNCHANGED models
            /\ pc' = [pc EXCEPT ![w] = "crashed"]
    /\ UNCHANGED <<active_streams, stream_of, reconnect_count, cap, config_of,
                   stream_frame_count, model_lock, snapshot, opens, open_run,
                   sleeps, last_read, model_locks, detection_results, cleared,
                   not_found, sideVars, trackerVars>>

\* main.py:389: a new lock, named by the worker that makes it
GetModelSetLock(w) ==
    /\ pc[w] = "gm_set_lock"
    /\ model_locks' =
          Put(model_locks, config_of[w].model_name, NewLock(w))
    /\ pc' = [pc EXCEPT ![w] = "gm_return"]
    /\ UNCHANGED <<active_streams, stream_of, reconnect_count, cap, config_of,
                   stream_frame_count, model_lock, snapshot, opens, open_run,
                   sleeps, last_read, models, detection_results, cleared,
                   not_found, sideVars, trackerVars>>

\* main.py:394 and 451-456: KeyError when the model is stored and its lock
\* is not yet
GetModelReturn(w) ==
    LET m == config_of[w].model_name
    IN  /\ pc[w] = "gm_return"
        /\ reconnect_count' = [reconnect_count EXCEPT ![w] = 0]
        /\ IF m \in DOMAIN models /\ m \in DOMAIN model_locks
           THEN /\ model_lock' = [model_lock EXCEPT ![w] = model_locks[m]]
                /\ pc' = [pc EXCEPT ![w] = "loop"]
           ELSE /\ UNCHANGED model_lock
                /\ pc' = [pc EXCEPT ![w] = "crashed"]
        /\ UNCHANGED <<active_streams, stream_of, cap, config_of,
                       stream_frame_count, snapshot, opens, open_run, sleeps,
                       last_read, models, model_locks, detection_results,
                       cleared, not_found, sideVars, trackerVars>>

\* main.py:458
LoopCheck(w) ==
    /\ pc[w] = "loop"
    /\ pc' = [pc EXCEPT ![w] =
                IF reconnect_count[w] < ReconnectAttempts THEN "open"
                ELSE "exit_check"]
    /\ UNCHANGED <<active_streams, stream_of, reconnect_count, cap, config_of,
                   stream_frame_count, model_lock, snapshot, opens, open_run,
                   sleeps, last_read, models, model_locks, detection_results,
                   cleared, not_found, sideVars, trackerVars>>

\* main.py:460-463: the capture opens, or the worker raises
Open(w) ==
    /\ pc[w] = "open"
    /\ opens' = [opens EXCEPT ![w] = @ + 1]
    /\ \/ /\ cap' = [cap EXCEPT ![w] = "open"]
          /\ pc' = [pc EXCEPT ![w] = "set_running"]
          /\ open_run' = [open_run EXCEPT ![w] = 0]
       \/ /\ cap' = [cap EXCEPT ![w] = "failed"]
          /\ pc' = [pc EXCEPT ![w] = "except"]
          /\ open_run' = [open_run EXCEPT ![w] = @ + 1]
    /\ UNCHANGED <<active_streams, stream_of, reconnect_count, config_of,
                   stream_frame_count, model_lock, snapshot, sleeps, last_read,
                   models, model_locks, detection_results, cleared, not_found,
                   sideVars, trackerVars>>

\* main.py:465: KeyError when the entry has been cleared
SetRunning(w) ==
    /\ pc[w] = "set_running"
    /\ IF Present(stream_of[w])
       THEN WriteStatus(stream_of[w], "running")
            /\ pc' = [pc EXCEPT ![w] = "frame_check"]
       ELSE UNCHANGED active_streams /\ pc' = [pc EXCEPT ![w] = "except"]
    /\ UNCHANGED <<stream_of, reconnect_count, cap, config_of,
                   stream_frame_count, model_lock, snapshot, opens, open_run,
                   sleeps, last_read, models, model_locks, detection_results,
                   cleared, not_found, sideVars, trackerVars>>

\* main.py:468, and the break of main.py:557
FrameCheck(w) ==
    /\ pc[w] = "frame_check"
    /\ pc' = [pc EXCEPT ![w] =
                IF Present(stream_of[w])
                   /\ active_streams[stream_of[w]].status = "running"
                THEN "read" ELSE "finally_break"]
    /\ UNCHANGED <<active_streams, stream_of, reconnect_count, cap, config_of,
                   stream_frame_count, model_lock, snapshot, opens, open_run,
                   sleeps, last_read, models, model_locks, detection_results,
                   cleared, not_found, sideVars, trackerVars>>

\* a failed read handled as an exception of the frame cycle
FailedReadRaises == "except"

\* main.py:470-473: where the worker goes after a failed read
AfterFailedRead == "frame_check"

\* main.py:469-473: a failed read sleeps and goes on with the loop; the
\* source delivers n frames at most
ReadUpTo(w, n) ==
    /\ pc[w] = "read"
    /\ \/ /\ pc' = [pc EXCEPT ![w] = AfterFailedRead]
          /\ last_read' = [last_read EXCEPT ![w] = "failed"]
       \/ /\ stream_frame_count[w] < n
          /\ pc' = [pc EXCEPT ![w] = "process"]
          /\ last_read' = [last_read EXCEPT ![w] = "ok"]
    /\ UNCHANGED <<active_streams, stream_of, reconnect_count, cap, config_of,
                   stream_frame_count, model_lock, snapshot, opens, open_run,
                   sleeps, models, model_locks, detection_results, cleared,
                   not_found, sideVars, trackerVars>>

\* main.py:469-473 on a source that delivers MaxStreamFrames frames at most
Read(w) == ReadUpTo(w, MaxStreamFrames)

\* main.py:519-522 for one detection: the counter of its class, then the time
CountDetection(info) == [info EXCEPT !.detections = @ + 1]

StampDetection(info) == [info EXCEPT !.last_detection = info.detections]

\* main.py:475-555 run without interruption: the frame is skipped (main.py:
\* 483-489); or the detector or the tracker raises (main.py:499-511); or the
\* frame is processed, with no detection or with one, and every access to the
\* registry raises KeyError when the entry has been cleared
Process(w) ==
    LET s == stream_of[w]
    IN  /\ pc[w] = "process"
        /\ stream_frame_count' = [stream_frame_count EXCEPT ![w] = @ + 1]
        /\ \/ /\ pc' = [pc EXCEPT ![w] = "frame_check"]
              /\ UNCHANGED active_streams
           \/ /\ pc' = [pc EXCEPT ![w] = "except"]
              /\ UNCHANGED active_streams
           \/ /\ Present(s)
              /\ pc' = [pc EXCEPT ![w] = "frame_check"]
              /\ \/ UNCHANGED active_streams
                 \/ active_streams' =
                       [active_streams EXCEPT
                           ![s] = StampDetection(CountDetection(@))]
        /\ UNCHANGED <<stream_of, reconnect_count, cap, config_of, model_lock,
                       snapshot, opens, open_run, sleeps, last_read, models,
                       model_locks, detection_results, cleared, not_found,
                       sideVars, trackerVars>>

\* main.py:519-522: the loop over the assignments returned by update
RECURSIVE CountAll(_, _)
CountAll(info, assigned) ==
    IF assigned = <<>> THEN info
    ELSE CountAll(StampDetection(CountDetection(info)), Tail(assigned))

\* main.py:499-503: what the detector finds in a frame of a stream of
\* persons: nothing, one or two persons, or one of low confidence
FrameBoxes == {<<>>, <<DetA>>, <<DetA, DetB>>, <<DetLow>>}

\* main.py:475-555 run without interruption, with the tracker of the worker:
\* the frame is skipped (main.py:483-489); or the detector raises (main.py:
\* 499); or it returns boxes, update is called when there is one at least
\* (main.py:508) and may raise, and each assignment it returns is counted in
\* the entry (main.py:519-522); the accesses to the registry (main.py:516,
\* 521, 542) raise KeyError when the entry has been cleared
ProcessTracked(w) ==
    LET s == stream_of[w]
    IN  /\ pc[w] = "process"
        /\ stream_frame_count' = [stream_frame_count EXCEPT ![w] = @ + 1]
        /\ \/ /\ pc' = [pc EXCEPT ![w] = "frame_check"]
              /\ UNCHANGED <<active_streams, sideVars, trackerVars>>
           \/ /\ pc' = [pc EXCEPT ![w] = "except"]
              /\ UNCHANGED <<active_streams, sideVars, trackerVars>>
           \/ /\ pc' = [pc EXCEPT ![w] =
                          IF Present(s) THEN "frame_check" ELSE "except"]
              /\ UNCHANGED <<active_streams, sideVars, trackerVars>>
           \/ \E boxes \in FrameBoxes \ {<<>>} :
                 LET out == Outcome(Update(cfg, Tracker, boxes))
                 IN  /\ UpdateCall(boxes)
                     /\ UNCHANGED fed
                     /\ IF out.raised \/ ~Present(s)
                        THEN /\ pc' = [pc EXCEPT ![w] = "except"]
                             /\ UNCHANGED active_streams
                        ELSE /\ pc' = [pc EXCEPT ![w] = "frame_check"]
                             /\ active_streams' =
                                   [active_streams EXCEPT
                                       ![s] = CountAll(@, out.assigned)]
        /\ UNCHANGED <<stream_of, reconnect_count, cap, config_of, model_lock,
                       snapshot, opens, open_run, sleeps, last_read, models,
                       model_locks, detection_results, cleared, not_found,
                       sideVars>>

\* main.py:475-494, the frame cycle step by step: the frame is counted, then
\* skipped or sent to the detector
ProcessBegin(w) ==
    /\ pc[w] = "process"
    /\ stream_frame_count' = [stream_frame_count EXCEPT ![w] = @ + 1]
    /\ \/ pc' = [pc EXCEPT ![w] = "frame_check"]
       \/ pc' = [pc EXCEPT ![w] = "acquire"]
    /\ UNCHANGED <<active_streams, stream_of, reconnect_count, cap, config_of,
                   model_lock, snapshot, opens, open_run, sleeps, last_read,
                   models, model_locks, detection_results, cleared, not_found,
                   sideVars, trackerVars>>

\* a worker is inside the with block of main.py:498-503 with lock l
Holds(v, l) == pc[v] = "detect" /\ model_lock[v] = l

\* main.py:498: the worker takes the lock get_model gave it, once it is free
Acquire(w) ==
    /\ pc[w] = "acquire"
    /\ \A v \in Workers : ~Holds(v, model_lock[w])
    /\ pc' = [pc EXCEPT ![w] = "detect"]
    /\ UNCHANGED <<active_streams, stream_of, reconnect_count, cap, config_of,
                   stream_frame_count, model_lock, snapshot, opens, open_run,
                   sleeps, last_read, models, model_locks, detection_results,
                   cleared, not_found, sideVars, trackerVars>>

\* main.py:499-511: the detector returns (leaving the with block frees the
\* lock) or raises; the tracker assigns a detection, assigns none, or raises
Detect(w) ==
    /\ pc[w] = "detect"
    /\ \/ pc' = [pc EXCEPT ![w] = "except"]
       \/ pc' = [pc EXCEPT ![w] = "metrics"]
       \/ pc' = [pc EXCEPT ![w] = "count"]
    /\ UNCHANGED <<active_streams, stream_of, reconnect_count, cap, config_of,
                   stream_frame_count, model_lock, snapshot, opens, open_run,
                   sleeps, last_read, models, model_locks, detection_results,
                   cleared, not_found, sideVars, trackerVars>>

\* main.py:513-521
Count(w) ==
    /\ pc[w] = "count"
    /\ IF Present(stream_of[w])
       THEN /\ active_streams' =
                  [active_streams EXCEPT ![stream_of[w]] = CountDetection(@)]
            /\ pc' = [pc EXCEPT ![w] = "stamp"]
       ELSE UNCHANGED active_streams /\ pc' = [pc EXCEPT ![w] = "except"]
    /\ UNCHANGED <<stream_of, reconnect_count, cap, config_of,
                   stream_frame_count, model_lock, snapshot, opens, open_run,
                   sleeps, last_read, models, model_locks, detection_results,
                   cleared, not_found, sideVars, trackerVars>>

\* main.py:522
Stamp(w) ==
    /\ pc[w] = "stamp"
    /\ IF Present(stream_of[w])
       THEN /\ active_streams' =
                  [active_streams EXCEPT ![stream_of[w]] = StampDetection(@)]
            /\ pc' = [pc EXCEPT ![w] = "metrics"]
       ELSE UNCHANGED active_streams /\ pc' = [pc EXCEPT ![w] = "except"]
    /\ UNCHANGED <<stream_of, reconnect_count, cap, config_of,
                   stream_frame_count, model_lock, snapshot, opens, open_run,
                   sleeps, last_read, models, model_locks, detection_results,
                   cleared, not_found, sideVars, trackerVars>>

\* main.py:538-555: the metrics of the entry are not part of the model, the
\* KeyError of line 542 is
Metrics(w) ==
    /\ pc[w] = "metrics"
    /\ pc' = [pc EXCEPT ![w] =
                IF Present(stream_of[w]) THEN "frame_check" ELSE "except"]
    /\ UNCHANGED <<active_streams, stream_of, reconnect_count, cap, config_of,
                   stream_frame_count, model_lock, snapshot, opens, open_run,
                   sleeps, last_read, models, model_locks, detection_results,
                   cleared, not_found, sideVars, trackerVars>>

\* the test of the handler with <= for <
ShouldRetryOnLast(n) == n <= ReconnectAttempts

\* main.py:563
ShouldRetry(n) == n < ReconnectAttempts

\* main.py:559-566
Except(w) ==
    /\ pc[w] = "except"
    /\ reconnect_count' = [reconnect_count EXCEPT ![w] = @ + 1]
    /\ pc' = [pc EXCEPT ![w] =
                IF ShouldRetry(reconnect_count[w] + 1) THEN "sleep"
                ELSE "set_error"]
    /\ UNCHANGED <<active_streams, stream_of, cap, config_of,
                   stream_frame_count, model_lock, snapshot, opens, open_run,
                   sleeps, last_read, models, model_locks, detection_results,
                   cleared, not_found, sideVars, trackerVars>>

\* main.py:565
Sleep(w) ==
    /\ pc[w] = "sleep"
    /\ sleeps' = [sleeps EXCEPT ![w] = @ + 1]
    /\ pc' = [pc EXCEPT ![w] = "finally_retry"]
    /\ UNCHANGED <<active_streams, stream_of, reconnect_count, cap, config_of,
                   stream_frame_count, model_lock, snapshot, opens, open_run,
                   last_read, models, model_locks, detection_results, cleared,
                   not_found, sideVars, trackerVars>>

\* main.py:567: KeyError, out of the handler, when the entry has been cleared
SetError(w) ==
    /\ pc[w] = "set_error"
    /\ IF Present(stream_of[w])
       THEN WriteStatus(stream_of[w], "error")
            /\ pc' = [pc EXCEPT ![w] = "finally_retry"]
       ELSE UNCHANGED active_streams /\ pc' = [pc EXCEPT ![w] = "finally_raise"]
    /\ UNCHANGED <<stream_of, reconnect_count, cap, config_of,
                   stream_frame_count, model_lock, snapshot, opens, open_run,
                   sleeps, last_read, models, model_locks, detection_results,
                   cleared, not_found, sideVars, trackerVars>>

\* the capture is left as it is
KeepCapture(c) == c

\* main.py:571-572: cap.release() on the capture the worker has made, if any
Release(c) == IF c = "none" THEN "none" ELSE "released"

\* main.py:570-572: the capture is released, then the loop goes on, is left,
\* or the exception leaves the worker
Finally(w) ==
    /\ pc[w] \in {"finally_break", "finally_retry", "finally_raise"}
    /\ cap' = [cap EXCEPT ![w] = Release(@)]
    /\ pc' = [pc EXCEPT ![w] =
                CASE pc[w] = "finally_break" -> "exit_check"
                  [] pc[w] = "finally_retry" -> "loop"
                  [] OTHER -> "crashed"]
    /\ UNCHANGED <<active_streams, stream_of, reconnect_count, config_of,
                   stream_frame_count, model_lock, snapshot, opens, open_run,
                   sleeps, last_read, models, model_locks, detection_results,
                   cleared, not_found, sideVars, trackerVars>>

\* main.py:574
ExitCheck(w) ==
    /\ pc[w] = "exit_check"
    /\ pc' = [pc EXCEPT ![w] =
                IF Present(stream_of[w]) THEN "exit_write" ELSE "done"]
    /\ UNCHANGED <<active_streams, stream_of, reconnect_count, cap, config_of,
                   stream_frame_count, model_lock, snapshot, opens, open_run,
                   sleeps, last_read, models, model_locks, detection_results,
                   cleared, not_found, sideVars, trackerVars>>

\* main.py:575: KeyError when the entry has been cleared since the test
ExitWrite(w) ==
    /\ pc[w] = "exit_write"
    /\ IF Present(stream_of[w])
       THEN WriteStatus(stream_of[w], "stopped") /\ pc' = [pc EXCEPT ![w] = "done"]
       ELSE UNCHANGED active_streams /\ pc' = [pc EXCEPT ![w] = "crashed"]
    /\ UNCHANGED <<stream_of, reconnect_count, cap, config_of,
                   stream_frame_count, model_lock, snapshot, opens, open_run,
                   sleeps, last_read, models, model_locks, detection_results,
                   cleared, not_found, sideVars, trackerVars>>

\* main.py:625-639: the record returned for stream s, or 404 (NotFound)
GetStreamStatus(s) ==
    /\ snapshot' = IF Present(s) THEN StreamStatus(active_streams[s]) ELSE NotFound
    /\ UNCHANGED <<active_streams, pc, stream_of, reconnect_count, cap,
                   config_of, stream_frame_count, model_lock, opens, open_run,
                   sleeps, last_read, models, model_locks, detection_results,
                   cleared, not_found, sideVars, trackerVars>>

\* a stop of an unknown stream that stores an entry for it
StopUnknownCreates(s) == Put(active_streams, s, [NewEntry(0) EXCEPT !.status = "stopping"])

\* main.py:656-657: the registry after a stop of a stream that is not in it
StopUnknown(s) == active_streams

\* main.py:653-660 for a stream of the registry (for any other the request is
\* answered 404: StopStreamNotFound)
StopStream(s) ==
    /\ Present(s)
    /\ WriteStatus(s, "stopping")
    /\ UNCHANGED <<pc, stream_of, reconnect_count, cap, config_of,
                   stream_frame_count, model_lock, snapshot, opens, open_run,
                   sleeps, last_read, models, model_locks, detection_results,
                   cleared, not_found, sideVars, trackerVars>>

\* main.py:656-657: the HTTPException raised for a stream that is not in the
\* registry
StopStreamNotFound(s) ==
    /\ ~Present(s)
    /\ active_streams' = StopUnknown(s)
    /\ not_found' = s
    /\ UNCHANGED <<pc, stream_of, reconnect_count, cap, config_of,
                   stream_frame_count, model_lock, snapshot, opens, open_run,
                   sleeps, last_read, models, model_locks, detection_results,
                   cleared, sideVars, trackerVars>>

\* main.py:662-670
StopAllStreams ==
    /\ active_streams' =
          [s \in DOMAIN active_streams |->
              [active_streams[s] EXCEPT !.status = "stopping"]]
    /\ UNCHANGED <<pc, stream_of, reconnect_count, cap, config_of,
                   stream_frame_count, model_lock, snapshot, opens, open_run,
                   sleeps, last_read, models, model_locks, detection_results,
                   cleared, not_found, sideVars, trackerVars>>

\* main.py:610-623, get_status: the number of entries and the listed streams
GetStatus ==
    [active_streams |-> Cardinality(DOMAIN active_streams),
     streams        |-> DOMAIN active_streams]

\* main.py:641-651, get_detections: 404, or the list kept for stream s
GetDetections(s) ==
    IF s \notin DOMAIN detection_results
    THEN [code |-> 404, detections |-> <<>>]
    ELSE [code |-> 200, detections |-> detection_results[s]]

\* main.py:685-694
ClearDetections(s) ==
    /\ detection_results' =
          [t \in DOMAIN detection_results \ {s} |-> detection_results[t]]
    /\ active_streams' = [t \in DOMAIN active_streams \ {s} |-> active_streams[t]]
    /\ cleared' = cleared \cup {s}
    /\ UNCHANGED <<pc, stream_of, reconnect_count, cap, config_of,
                   stream_frame_count, model_lock, snapshot, opens, open_run,
                   sleeps, last_read, models, model_locks, not_found, sideVars,
                   trackerVars>>

----------------------------------------------------------------------------
(* The frame decimation and the daily limit of a stream worker *)

\* main.py:401-410: the fields of model_config and save_config that decide
\* whether a frame is processed
FrameConfigOf(n, limit, all) ==
    [process_every_n_frames |-> n, max_frames_per_day |-> limit,
     save_detections |-> TRUE, save_all_frames |-> all]

\* main.py:123 and 403-410: the defaults
DefaultFrameConfig == FrameConfigOf(1, 1000, FALSE)

FrameConfigs ==
    {FrameConfigOf(n, limit, all) :
        n \in {1, 2}, limit \in {1, 3, 1000}, all \in BOOLEAN}

\* main.py:424-426
InitFrames ==
    /\ frame_config = DefaultFrameConfig
    /\ daily_frame_count = [w \in Workers |-> 0]
    /\ last_day = [w \in Workers |-> 0]
    /\ detector_calls = [w \in Workers |-> 0]

\* every frame is due
DueAlways(k, n) == TRUE

\* main.py:488: the frame counted k is due when k is a multiple of n
Due(k, n) == k % n = 0

\* main.py:483
LimitReached(daily, c) == daily >= c.max_frames_per_day

\* main.py:513-516 and 525-536: daily_frame_count after a frame that was
\* processed, by what the tracker returned for it
DailyAfter(daily, c, assigned) ==
    IF assigned # <<>> /\ c.save_detections THEN daily + 1
    ELSE IF c.save_all_frames THEN daily + 1
    ELSE daily

\* main.py:475-555 run without interruption, with the tests of the day, of
\* the daily limit and of the decimation: the frame is counted, the daily
\* count starts again on a new day (main.py:477-481), the frame is skipped at
\* the daily limit (main.py:483-486) or when it is not due (main.py:488-489),
\* and otherwise the detector is called (main.py:498-503) and the tracker
\* when the detector returned a box (main.py:508-511)
ProcessDecimated(w) ==
    LET s == stream_of[w]
        k == stream_frame_count[w] + 1
        c == frame_config
    IN  /\ pc[w] = "process"
        /\ stream_frame_count' = [stream_frame_count EXCEPT ![w] = k]
        /\ \E day \in {last_day[w], last_day[w] + 1} \cap (0 .. MaxDays) :
              LET daily == IF day # last_day[w] THEN 0 ELSE daily_frame_count[w]
              IN  /\ last_day' = [last_day EXCEPT ![w] = day]
                  /\ IF LimitReached(daily, c)
                        \/ ~Due(k, c.process_every_n_frames)
                     THEN /\ daily_frame_count' =
                                [daily_frame_count EXCEPT ![w] = daily]
                          /\ pc' = [pc EXCEPT ![w] = "frame_check"]
                          /\ UNCHANGED <<detector_calls, active_streams,
                                         trackerVars>>
                     ELSE /\ detector_calls' = [detector_calls EXCEPT ![w] = @ + 1]
                          /\ \/ /\ pc' = [pc EXCEPT ![w] = "except"]
                                /\ daily_frame_count' =
                                      [daily_frame_count EXCEPT ![w] = daily]
                                /\ UNCHANGED <<active_streams, trackerVars>>
                             \/ /\ daily_frame_count' =
                                      [daily_frame_count EXCEPT
                                          ![w] = DailyAfter(daily, c, <<>>)]
                                /\ pc' = [pc EXCEPT ![w] =
                                            IF Present(s) THEN "frame_check"
                                            ELSE "except"]
                                /\ UNCHANGED <<active_streams, trackerVars>>
                             \/ \E boxes \in FrameBoxes \ {<<>>} :
                                   LET out == Outcome(Update(cfg, Tracker, boxes))
                                   IN  /\ UpdateCall(boxes)
                                       /\ UNCHANGED fed
                                       /\ daily_frame_count' =
                                             [daily_frame_count EXCEPT ![w] =
                                                IF out.raised THEN daily
                                                ELSE DailyAfter(daily, c,
                                                                out.assigned)]
                                       /\ IF out.raised \/ ~Present(s)
                                          THEN /\ pc' = [pc EXCEPT ![w] = "except"]
                                               /\ UNCHANGED active_streams
                                          ELSE /\ pc' = [pc EXCEPT ![w] = "frame_check"]
                                               /\ active_streams' =
                                                     [active_streams EXCEPT
                                                        ![s] = CountAll(@, out.assigned)]
        /\ UNCHANGED <<stream_of, reconnect_count, cap, config_of, model_lock,
                       snapshot, opens, open_run, sleeps, last_read, models,
                       model_locks, detection_results, cleared, not_found,
                       frame_config, cacheVars, fileVars>>

----------------------------------------------------------------------------
(* The cache manager *)

Callers == 1 .. MaxCallers

CacheKeys == {"k1", "k2"}

\* config/cache.py:34-39
InitCache ==
    /\ memory_cache = EmptyMap
    /\ memory_lock = 0
    /\ last_cleanup = 0
    /\ now = 0
    /\ cache_pc = [t \in Callers |-> "idle"]

\* datetime.utcnow() moves on
Tick ==
    /\ now < MaxTicks
    /\ now' = now + 1
    /\ UNCHANGED <<memory_cache, memory_lock, last_cleanup, cache_pc,
                   trackerVars, streamVars, workerVars, frameVars, fileVars>>

\* config/cache.py:97-100: set is called and _check_memory_limit tells
\* whether the process is below its memory limit
SetCheckMemory(t) ==
    /\ cache_pc[t] = "idle"
    /\ \/ cache_pc' = [cache_pc EXCEPT ![t] = "set_lock"]
       \/ cache_pc' = [cache_pc EXCEPT ![t] = "limit_cleanup"]
    /\ UNCHANGED <<memory_cache, memory_lock, last_cleanup, now,
                   trackerVars, streamVars, workerVars, frameVars, fileVars>>

\* config/cache.py:156-161: the entries that have not expired
Unexpired(cache, time) ==
    [k \in {x \in DOMAIN cache : time < cache[x]} |-> cache[k]]

\* config/cache.py:67: the cleanup interval has elapsed
Elapsed(time, last) == time - last > CleanupInterval

\* config/cache.py:151-164, cleanup_expired: it takes memory_lock, which is not
\* reentrant (config/cache.py:37), sweeps and frees it. Called at
\* config/cache.py:101 it is followed by the second memory check; called from
\* _cleanup_if_needed (config/cache.py:68-69) it is followed by the write of
\* last_cleanup, the end of the with block of set and return True
\* (config/cache.py:121-123)
CleanupExpired(t) ==
    /\ cache_pc[t] \in {"limit_cleanup", "cleanup_expired"}
    /\ memory_lock = 0
    /\ memory_cache' = Unexpired(memory_cache, now)
    /\ UNCHANGED memory_lock
    /\ IF cache_pc[t] = "limit_cleanup"
       THEN /\ cache_pc' = [cache_pc EXCEPT ![t] = "limit_recheck"]
            /\ UNCHANGED last_cleanup
       ELSE /\ cache_pc' = [cache_pc EXCEPT ![t] = "true"]
            /\ last_cleanup' = now
    /\ UNCHANGED <<now, trackerVars, streamVars, workerVars, frameVars,
                   fileVars>>

\* config/cache.py:102-103: the second memory check; set returns False when
\* the process is still above its limit
SetRecheckMemory(t) ==
    /\ cache_pc[t] = "limit_recheck"
    /\ \/ cache_pc' = [cache_pc EXCEPT ![t] = "set_lock"]
       \/ cache_pc' = [cache_pc EXCEPT ![t] = "false"]
    /\ UNCHANGED <<memory_cache, memory_lock, last_cleanup, now,
                   trackerVars, streamVars, workerVars, frameVars, fileVars>>

\* config/cache.py:115-118: the entry that expires first is evicted from a
\* full cache
EvictOldest(cache) ==
    IF Cardinality(DOMAIN cache) >= CacheSize
    THEN LET oldest == CHOOSE k \in DOMAIN cache :
                          \A x \in DOMAIN cache : cache[k] <= cache[x]
         IN  [k \in DOMAIN cache \ {oldest} |-> cache[k]]
    ELSE cache

\* config/cache.py:105-120: set takes memory_lock and stores the entry; its
\* key and its expiry, computed before at some time up to now, are drawn here
SetStore(t) ==
    /\ cache_pc[t] = "set_lock"
    /\ memory_lock = 0
    /\ memory_lock' = t
    /\ \E k \in CacheKeys, e \in DefaultTtl .. now + DefaultTtl :
          memory_cache' = Put(EvictOldest(memory_cache), k, e)
    /\ cache_pc' = [cache_pc EXCEPT ![t] = "cleanup_if_needed"]
    /\ UNCHANGED <<last_cleanup, now, trackerVars, streamVars, workerVars,
                   frameVars, fileVars>>

\* config/cache.py:64-69 called at config/cache.py:121, inside the with block
\* of set: when the interval has elapsed cleanup_expired is called, and
\* otherwise set leaves the with block and returns True
CleanupIfNeeded(t) ==
    /\ cache_pc[t] = "cleanup_if_needed"
    /\ IF Elapsed(now, last_cleanup)
       THEN /\ cache_pc' = [cache_pc EXCEPT ![t] = "cleanup_expired"]
            /\ UNCHANGED memory_lock
       ELSE /\ cache_pc' = [cache_pc EXCEPT ![t] = "true"]
            /\ memory_lock' = 0
    /\ UNCHANGED <<memory_cache, last_cleanup, now, trackerVars, streamVars,
                   workerVars, frameVars, fileVars>>

\* the caller has its boolean and calls set again later
SetReturned(t) ==
    /\ cache_pc[t] \in {"true", "false"}
    /\ cache_pc' = [cache_pc EXCEPT ![t] = "idle"]
    /\ UNCHANGED <<memory_cache, memory_lock, last_cleanup, now,
                   trackerVars, streamVars, workerVars, frameVars, fileVars>>

CallerStep(t) ==
    \/ SetCheckMemory(t) \/ CleanupExpired(t) \/ SetRecheckMemory(t)
    \/ SetStore(t) \/ CleanupIfNeeded(t) \/ SetReturned(t)

NextCache ==
    \/ Tick
    \/ \E t \in Callers : SetCheckMemory(t)
    \/ \E t \in Callers : CleanupExpired(t)
    \/ \E t \in Callers : SetRecheckMemory(t)
    \/ \E t \in Callers : SetStore(t)
    \/ \E t \in Callers : CleanupIfNeeded(t)
    \/ \E t \in Callers : SetReturned(t)

----------------------------------------------------------------------------
(* The file locks of the storage manager *)

Savers == 1 .. MaxSavers

\* the FileLock objects, all of one file path: for each thread the one of
\* save_event (cases/storage_manager.py:126) and the one of
\* _ensure_csv_headers (cases/storage_manager.py:77)
FileLocks == 1 .. 2 * MaxSavers

Outer(t) == t

Inner(t) == t + MaxSavers

SaverOf(l) == IF l <= MaxSavers THEN l ELSE l - MaxSavers

\* cases/storage_manager.py:22-25: no FileLock is entered and there is no
\* lock file
InitLocks ==
    /\ lock_file = 0
    /\ inodes = 0
    /\ lock_fd = [l \in FileLocks |-> 0]
    /\ fl_pc = [l \in FileLocks |-> "out"]
    /\ save_pc = [t \in Savers |-> "idle"]
    /\ csv_rows = 0

\* cases/storage_manager.py:100-123: save_event is called; it returns False
\* for invalid data or a full disk and goes on to its FileLock otherwise
SaveCall(t) ==
    /\ save_pc[t] = "idle"
    /\ inodes + 2 * MaxSavers <= MaxInodes
    /\ \/ save_pc' = [save_pc EXCEPT ![t] = "enter"]
       \/ save_pc' = [save_pc EXCEPT ![t] = "false"]
    /\ UNCHANGED <<lock_file, inodes, lock_fd, fl_pc, csv_exists, csv_rows,
                   trackerVars, streamVars, workerVars, frameVars, cacheVars>>

\* the thread of the FileLock l is at the with statement that enters it
Entering(l) ==
    save_pc[SaverOf(l)] = (IF l = Outer(SaverOf(l)) THEN "enter" ELSE "headers")

\* the thread of the FileLock l is at the end of the with block of l
Leaving(l) ==
    save_pc[SaverOf(l)] = (IF l = Outer(SaverOf(l)) THEN "leave" ELSE "leave_inner")

\* cases/storage_manager.py:29: open(lock_file, 'w') opens the file the path
\* names, and makes a new file when the path names none
EnterOpen(l) ==
    /\ Entering(l)
    /\ fl_pc[l] = "out"
    /\ IF lock_file = 0
       THEN /\ inodes' = inodes + 1
            /\ lock_file' = inodes + 1
            /\ lock_fd' = [lock_fd EXCEPT ![l] = inodes + 1]
       ELSE /\ lock_fd' = [lock_fd EXCEPT ![l] = lock_file]
            /\ UNCHANGED <<inodes, lock_file>>
    /\ fl_pc' = [fl_pc EXCEPT ![l] = "opened"]
    /\ UNCHANGED <<save_pc, csv_exists, csv_rows,
                   trackerVars, streamVars, workerVars, frameVars, cacheVars>>

\* fcntl.flock: an exclusive lock is held on the file of l through another
\* open of that file
Locked(l) ==
    \E m \in FileLocks \ {l} : fl_pc[m] = "held" /\ lock_fd[m] = lock_fd[l]

\* cases/storage_manager.py:31 and 35: flock(LOCK_EX) waits until no other
\* open file holds a lock on the file, then __enter__ returns; in
\* _ensure_csv_headers the with block follows (cases/storage_manager.py:
\* 78-80): open(file_path, 'w') makes the CSV file, or empties it, and the
\* header is written
EnterFlock(l) ==
    /\ fl_pc[l] = "opened"
    /\ ~Locked(l)
    /\ fl_pc' = [fl_pc EXCEPT ![l] = "held"]
    /\ IF l = Inner(SaverOf(l))
       THEN /\ csv_exists' = TRUE
            /\ csv_rows' = 0
            /\ save_pc' = [save_pc EXCEPT ![SaverOf(l)] = "leave_inner"]
       ELSE UNCHANGED <<save_pc, csv_exists, csv_rows>>
    /\ UNCHANGED <<lock_file, inodes, lock_fd,
                   trackerVars, streamVars, workerVars, frameVars, cacheVars>>

\* cases/storage_manager.py:76: inside its FileLock save_event calls
\* _ensure_csv_headers, which enters a FileLock of its own when the CSV file
\* does not exist
EnsureHeaders(t) ==
    /\ save_pc[t] = "enter"
    /\ fl_pc[Outer(t)] = "held"
    /\ save_pc' = [save_pc EXCEPT ![t] = IF csv_exists THEN "write" ELSE "headers"]
    /\ UNCHANGED <<lock_file, inodes, lock_fd, fl_pc, csv_exists, csv_rows,
                   trackerVars, streamVars, workerVars, frameVars, cacheVars>>

\* cases/storage_manager.py:128-130: the row is appended
WriteRow(t) ==
    /\ save_pc[t] = "write"
    /\ csv_exists' = TRUE
    /\ csv_rows' = csv_rows + 1
    /\ save_pc' = [save_pc EXCEPT ![t] = "leave"]
    /\ UNCHANGED <<lock_file, inodes, lock_fd, fl_pc,
                   trackerVars, streamVars, workerVars, frameVars, cacheVars>>

\* cases/storage_manager.py:39: flock(LOCK_UN)
ExitUnlock(l) ==
    /\ Leaving(l)
    /\ fl_pc[l] = "held"
    /\ fl_pc' = [fl_pc EXCEPT ![l] = "unlocked"]
    /\ UNCHANGED <<lock_file, inodes, lock_fd, save_pc, csv_exists, csv_rows,
                   trackerVars, streamVars, workerVars, frameVars, cacheVars>>

\* cases/storage_manager.py:40-44: lock_fd is closed and the path of the lock
\* file is removed, whatever file it names by now; then _ensure_csv_headers
\* returns to save_event, or save_event returns True (cases/storage_manager.py:
\* 133)
ExitRemove(l) ==
    /\ fl_pc[l] = "unlocked"
    /\ lock_fd' = [lock_fd EXCEPT ![l] = 0]
    /\ lock_file' = 0
    /\ fl_pc' = [fl_pc EXCEPT ![l] = "out"]
    /\ save_pc' = [save_pc EXCEPT ![SaverOf(l)] =
                      IF l = Outer(SaverOf(l)) THEN "true" ELSE "write"]
    /\ UNCHANGED <<inodes, csv_exists, csv_rows,
                   trackerVars, streamVars, workerVars, frameVars, cacheVars>>

\* the caller has its boolean and calls save_event again later
SaveReturned(t) ==
    /\ save_pc[t] \in {"true", "false"}
    /\ save_pc' = [save_pc EXCEPT ![t] = "idle"]
    /\ UNCHANGED <<lock_file, inodes, lock_fd, fl_pc, csv_exists, csv_rows,
                   trackerVars, streamVars, workerVars, frameVars, cacheVars>>

SaverStep(t) ==
    \/ SaveCall(t) \/ EnsureHeaders(t) \/ WriteRow(t)
    \/ SaveReturned(t)
    \/ \E l \in {Outer(t), Inner(t)} :
          EnterOpen(l) \/ EnterFlock(l) \/ ExitUnlock(l) \/ ExitRemove(l)

NextSave ==
    \/ \E t \in Savers : SaveCall(t)
    \/ \E l \in FileLocks : EnterOpen(l)
    \/ \E l \in FileLocks : EnterFlock(l)
    \/ \E t \in Savers : EnsureHeaders(t)
    \/ \E t \in Savers : WriteRow(t)
    \/ \E l \in FileLocks : ExitUnlock(l)
    \/ \E l \in FileLocks : ExitRemove(l)
    \/ \E t \in Savers : SaveReturned(t)

\* the state of the frame cycle, of the cache and of the files at the start;
\* the CSV file of the day does not exist yet
InitSide == InitFrames /\ InitCache /\ InitLocks /\ csv_exists = FALSE

----------------------------------------------------------------------------
(* The tracker fed arbitrary detection lists *)

\* main.py:190-199
InitTracker ==
    /\ next_id = 0
    /\ centroids = EmptyMap
    /\ track_history = EmptyMap
    /\ detections = <<>>
    /\ frame_count = 0
    /\ result = [raised |-> FALSE, assigned |-> <<>>, unsaved |-> 0, assoc |-> <<>>]
    /\ created = <<>>
    /\ all_centroids = EmptyMap
    /\ misses = EmptyMap
    /\ hits_ever = EmptyMap
    /\ fed = <<>>

Init ==
    /\ cfg \in Configs
    /\ InitTracker
    /\ InitStreams
    /\ InitSide

TrackerUpdate ==
    /\ frame_count < MaxFrames
    /\ \E boxes \in DetLists : UpdateCall(boxes)
    /\ UNCHANGED <<fed, streamVars, workerVars, sideVars>>

Next == TrackerUpdate

Spec == Init /\ [][Next]_vars

----------------------------------------------------------------------------
(* The tracker of the scenario: max_distance=50, min_confidence=0.4,       *)
(* max_age=3, min_hits=2, fed frames that hold the detection at (10,10),   *)
(* the detection at (12,11), or nothing                                    *)

ScenarioConfig == Config(50, 40, 3, 2, TRUE)

ScenarioLists == {<<>>, <<DetA>>, <<DetB>>}

InitScenario ==
    /\ cfg = ScenarioConfig
    /\ InitTracker
    /\ InitStreams
    /\ InitSide

ScenarioUpdate ==
    /\ frame_count < MaxScenarioFrames
    /\ \E boxes \in ScenarioLists : UpdateCall(boxes) /\ fed' = Append(fed, boxes)
    /\ UNCHANGED <<streamVars, workerVars, sideVars>>

NextScenario == ScenarioUpdate

SpecScenario == InitScenario /\ [][NextScenario]_vars

----------------------------------------------------------------------------
(* The tracker with the default tracking configuration (main.py:124-131),  *)
(* following one object that moves two pixels a frame and is detected in   *)
(* every frame, with or without a second detection far away.  The frames   *)
(* cannot be saved, so that the list of events stays empty.                *)

\* main.py:127-130
DefaultConfigs == {Config(50, 30, 30, 3, TRUE), Config(50, 30, 30, 3, FALSE)}

MovingDet(f) == Det(<<2 * f, 0, 2 * f + 4, 4>>, 50, 0, FALSE)

FarDet == Det(<<1000, 1000, 1004, 1004>>, 50, 0, FALSE)

HistLists(f) == {<<MovingDet(f)>>, <<MovingDet(f), FarDet>>}

InitHist ==
    /\ cfg \in DefaultConfigs
    /\ InitTracker
    /\ InitStreams
    /\ InitSide

HistUpdate ==
    /\ frame_count < MaxHistFrames
    /\ \E boxes \in HistLists(frame_count) : UpdateCall(boxes)
    /\ UNCHANGED <<fed, streamVars, workerVars, sideVars>>

NextHist == HistUpdate

SpecHist == InitHist /\ [][NextHist]_vars

----------------------------------------------------------------------------
(* The tracker fed frames that hold detections below min_confidence, alone *)
(* or with one above it                                                    *)

FilterLists ==
    {<<>>, <<DetA>>, <<DetB>>, <<DetLow>>, <<DetLow, DetB>>, <<DetA, DetLow>>}

FilterUpdate ==
    /\ frame_count < MaxFilterFrames
    /\ \E boxes \in FilterLists : UpdateCall(boxes) /\ fed' = Append(fed, boxes)
    /\ UNCHANGED <<streamVars, workerVars, sideVars>>

NextFilter == FilterUpdate

SpecFilter == Init /\ [][NextFilter]_vars

----------------------------------------------------------------------------
(* The stream workers under the handlers *)

InitStream ==
    /\ cfg = ScenarioConfig
    /\ InitTracker
    /\ InitStreams
    /\ InitSide

NextStream ==
    \/ \E s \in Streams :
          \E c \in {DefaultStream, UnknownModelStream, UnknownClassStream} :
              StartDetection(s, c)
    \/ \E s \in Streams : StopStream(s)
    \/ StopAllStreams
    \/ \E s \in Streams : ClearDetections(s)
    \/ \E w \in Workers : Register(w)
    \/ \E w \in Workers : GetModel(w)
    \/ \E w \in Workers : LoopCheck(w)
    \/ \E w \in Workers : Open(w)
    \/ \E w \in Workers : SetRunning(w)
    \/ \E w \in Workers : FrameCheck(w)
    \/ \E w \in Workers : Read(w)
    \/ \E w \in Workers : Process(w)
    \/ \E w \in Workers : Except(w)
    \/ \E w \in Workers : Sleep(w)
    \/ \E w \in Workers : SetError(w)
    \/ \E w \in Workers : Finally(w)
    \/ \E w \in Workers : ExitCheck(w)
    \/ \E w \in Workers : ExitWrite(w)

SpecStream == InitStream /\ [][NextStream]_vars

----------------------------------------------------------------------------
(* One stream with the default configuration, started by one request, then *)
(* stopped and cleared while its worker runs; the thread of the worker is  *)
(* scheduled fairly                                                        *)

\* a step of the worker w, get_model and the frame cycle taken as one step each
WorkerStep(w) ==
    \/ Register(w) \/ GetModel(w) \/ LoopCheck(w) \/ Open(w) \/ SetRunning(w)
    \/ FrameCheck(w) \/ Read(w) \/ Process(w) \/ Except(w) \/ Sleep(w)
    \/ SetError(w) \/ Finally(w) \/ ExitCheck(w) \/ ExitWrite(w)

\* main.py:584-608: the one start request of the run
StartOnce ==
    /\ \A w \in Workers : pc[w] = "idle"
    /\ StartDetection("s1", DefaultStream)

NextReconnect ==
    \/ StartOnce
    \/ StopStream("s1")
    \/ ClearDetections("s1")
    \/ \E w \in Workers : Register(w)
    \/ \E w \in Workers : GetModel(w)
    \/ \E w \in Workers : LoopCheck(w)
    \/ \E w \in Workers : Open(w)
    \/ \E w \in Workers : SetRunning(w)
    \/ \E w \in Workers : FrameCheck(w)
    \/ \E w \in Workers : Read(w)
    \/ \E w \in Workers : Process(w)
    \/ \E w \in Workers : Except(w)
    \/ \E w \in Workers : Sleep(w)
    \/ \E w \in Workers : SetError(w)
    \/ \E w \in Workers : Finally(w)
    \/ \E w \in Workers : ExitCheck(w)
    \/ \E w \in Workers : ExitWrite(w)

SpecReconnect ==
    InitStream /\ [][NextReconnect]_vars
    /\ \A w \in Workers : WF_vars(WorkerStep(w))

----------------------------------------------------------------------------
(* The streams started and stopped, never cleared, under fair scheduling   *)
(* of the workers                                                          *)

NextStop ==
    \/ \E s \in Streams : StartDetection(s, DefaultStream)
    \/ \E s \in Streams : StopStream(s)
    \/ StopAllStreams
    \/ \E w \in Workers : Register(w)
    \/ \E w \in Workers : GetModel(w)
    \/ \E w \in Workers : LoopCheck(w)
    \/ \E w \in Workers : Open(w)
    \/ \E w \in Workers : SetRunning(w)
    \/ \E w \in Workers : FrameCheck(w)
    \/ \E w \in Workers : Read(w)
    \/ \E w \in Workers : Process(w)
    \/ \E w \in Workers : Except(w)
    \/ \E w \in Workers : Sleep(w)
    \/ \E w \in Workers : SetError(w)
    \/ \E w \in Workers : Finally(w)
    \/ \E w \in Workers : ExitCheck(w)
    \/ \E w \in Workers : ExitWrite(w)

SpecStop ==
    InitStream /\ [][NextStop]_vars
    /\ \A w \in Workers : WF_vars(WorkerStep(w))

----------------------------------------------------------------------------
(* The workers with get_model and the frame cycle taken step by step, for  *)
(* two streams of one model name or of two, while the status of the first  *)
(* is requested                                                            *)

NextDetect ==
    \/ StartDetection("s1", DefaultStream)
    \/ \E c \in {DefaultStream, OtherModelStream} : StartDetection("s2", c)
    \/ GetStreamStatus("s1")
    \/ \E w \in Workers : Register(w)
    \/ \E w \in Workers : GetModelCheck(w)
    \/ \E w \in Workers : GetModelRecheck(w)
    \/ \E w \in Workers : GetModelLoad(w)
    \/ \E w \in Workers : GetModelSetLock(w)
    \/ \E w \in Workers : GetModelReturn(w)
    \/ \E w \in Workers : LoopCheck(w)
    \/ \E w \in Workers : Open(w)
    \/ \E w \in Workers : SetRunning(w)
    \/ \E w \in Workers : FrameCheck(w)
    \/ \E w \in Workers : Read(w)
    \/ \E w \in Workers : ProcessBegin(w)
    \/ \E w \in Workers : Acquire(w)
    \/ \E w \in Workers : Detect(w)
    \/ \E w \in Workers : Count(w)
    \/ \E w \in Workers : Stamp(w)
    \/ \E w \in Workers : Metrics(w)
    \/ \E w \in Workers : Except(w)
    \/ \E w \in Workers : Sleep(w)
    \/ \E w \in Workers : SetError(w)
    \/ \E w \in Workers : Finally(w)
    \/ \E w \in Workers : ExitCheck(w)
    \/ \E w \in Workers : ExitWrite(w)

SpecDetect == InitStream /\ [][NextDetect]_vars

----------------------------------------------------------------------------
(* Two streams started once each, of one model name or of two, with        *)
(* get_model and the detector call taken step by step                      *)

\* main.py:584-608: the first start request for the stream s
StartStream(s, c) ==
    /\ \A w \in Workers : pc[w] # "idle" => stream_of[w] # s
    /\ StartDetection(s, c)

NextLocks ==
    \/ StartStream("s1", DefaultStream)
    \/ \E c \in {DefaultStream, OtherModelStream} : StartStream("s2", c)
    \/ \E w \in Workers : Register(w)
    \/ \E w \in Workers : GetModelCheck(w)
    \/ \E w \in Workers : GetModelRecheck(w)
    \/ \E w \in Workers : GetModelLoad(w)
    \/ \E w \in Workers : GetModelSetLock(w)
    \/ \E w \in Workers : GetModelReturn(w)
    \/ \E w \in Workers : LoopCheck(w)
    \/ \E w \in Workers : Open(w)
    \/ \E w \in Workers : SetRunning(w)
    \/ \E w \in Workers : FrameCheck(w)
    \/ \E w \in Workers : Read(w)
    \/ \E w \in Workers : ProcessBegin(w)
    \/ \E w \in Workers : Acquire(w)
    \/ \E w \in Workers : Detect(w)
    \/ \E w \in Workers : Count(w)
    \/ \E w \in Workers : Stamp(w)
    \/ \E w \in Workers : Metrics(w)
    \/ \E w \in Workers : Except(w)
    \/ \E w \in Workers : Sleep(w)
    \/ \E w \in Workers : SetError(w)
    \/ \E w \in Workers : Finally(w)
    \/ \E w \in Workers : ExitCheck(w)
    \/ \E w \in Workers : ExitWrite(w)

SpecLocks == InitStream /\ [][NextLocks]_vars

----------------------------------------------------------------------------
(* One stream of persons, started by one request, whose worker feeds its   *)
(* tracker with what the detector finds, while the stream is stopped and   *)
(* cleared                                                                 *)

NextTracked ==
    \/ StartOnce
    \/ StopStream("s1")
    \/ ClearDetections("s1")
    \/ \E w \in Workers : Register(w)
    \/ \E w \in Workers : GetModel(w)
    \/ \E w \in Workers : LoopCheck(w)
    \/ \E w \in Workers : Open(w)
    \/ \E w \in Workers : SetRunning(w)
    \/ \E w \in Workers : FrameCheck(w)
    \/ \E w \in Workers : ReadUpTo(w, MaxTrackedFrames)
    \/ \E w \in Workers : ProcessTracked(w)
    \/ \E w \in Workers : Except(w)
    \/ \E w \in Workers : Sleep(w)
    \/ \E w \in Workers : SetError(w)
    \/ \E w \in Workers : Finally(w)
    \/ \E w \in Workers : ExitCheck(w)
    \/ \E w \in Workers : ExitWrite(w)

SpecTracked == InitStream /\ [][NextTracked]_vars

----------------------------------------------------------------------------
(* One stream of persons started by one request, with every decimation and *)
(* daily limit, whose worker feeds its tracker                             *)

InitDecimate ==
    /\ cfg = ScenarioConfig
    /\ InitTracker
    /\ InitStreams
    /\ frame_config \in FrameConfigs
    /\ daily_frame_count = [w \in Workers |-> 0]
    /\ last_day = [w \in Workers |-> 0]
    /\ detector_calls = [w \in Workers |-> 0]
    /\ InitCache
    /\ InitLocks
    /\ csv_exists = FALSE

NextDecimate ==
    \/ StartOnce
    \/ StopStream("s1")
    \/ \E w \in Workers : Register(w)
    \/ \E w \in Workers : GetModel(w)
    \/ \E w \in Workers : LoopCheck(w)
    \/ \E w \in Workers : Open(w)
    \/ \E w \in Workers : SetRunning(w)
    \/ \E w \in Workers : FrameCheck(w)
    \/ \E w \in Workers : ReadUpTo(w, MaxDecimatedFrames)
    \/ \E w \in Workers : ProcessDecimated(w)
    \/ \E w \in Workers : Except(w)
    \/ \E w \in Workers : Sleep(w)
    \/ \E w \in Workers : SetError(w)
    \/ \E w \in Workers : Finally(w)
    \/ \E w \in Workers : ExitCheck(w)
    \/ \E w \in Workers : ExitWrite(w)

SpecDecimate == InitDecimate /\ [][NextDecimate]_vars

----------------------------------------------------------------------------
(* The threads that call StorageManager.save_event for one CSV file, which *)
(* exists at the start or does not, under fair scheduling                  *)

InitSave ==
    /\ cfg = ScenarioConfig
    /\ InitTracker
    /\ InitStreams
    /\ InitFrames
    /\ InitCache
    /\ InitLocks
    /\ csv_exists \in BOOLEAN

SpecSave ==
    InitSave /\ [][NextSave]_vars
    /\ \A t \in Savers : WF_vars(SaverStep(t))

----------------------------------------------------------------------------
(* The threads that call CacheManager.set, under fair scheduling *)

SpecCache ==
    InitStream /\ [][NextCache]_vars
    /\ \A t \in Callers : WF_vars(CallerStep(t))

----------------------------------------------------------------------------
(* One stream started by one request, then stopped and cleared, while the  *)
(* status and the stop of that stream and of one never started are         *)
(* requested                                                               *)

NextRegistry ==
    \/ StartOnce
    \/ \E s \in Streams : GetStreamStatus(s)
    \/ \E s \in Streams : StopStream(s)
    \/ \E s \in Streams : StopStreamNotFound(s)
    \/ ClearDetections("s1")
    \/ \E w \in Workers : Register(w)
    \/ \E w \in Workers : GetModel(w)
    \/ \E w \in Workers : LoopCheck(w)
    \/ \E w \in Workers : Open(w)
    \/ \E w \in Workers : SetRunning(w)
    \/ \E w \in Workers : FrameCheck(w)
    \/ \E w \in Workers : Read(w)
    \/ \E w \in Workers : Process(w)
    \/ \E w \in Workers : Except(w)
    \/ \E w \in Workers : Sleep(w)
    \/ \E w \in Workers : SetError(w)
    \/ \E w \in Workers : Finally(w)
    \/ \E w \in Workers : ExitCheck(w)
    \/ \E w \in Workers : ExitWrite(w)

SpecRegistry == InitStream /\ [][NextRegistry]_vars

----------------------------------------------------------------------------
(* Claims about the tracker *)

\* C1: the ids of the tracks created by a tracker are strictly increasing in
\* creation order, so no id is given to two tracks, also after an eviction.
TrackIdsStrictlyIncreasing ==
    \A i, j \in DOMAIN created : i < j => created[i] < created[j]

\* a track has been created in the last cycle while an older one is evicted
TrackCreatedAfterEviction ==
    \E e \in DOMAIN hits_ever, n \in DOMAIN centroids :
        e \notin DOMAIN centroids /\ e < n /\ centroids[n].age = 0

\* C2: every track id has at most one DetectionEvent in the tracker's list.
ConfirmationIsOneShot ==
    \A i, j \in DOMAIN detections :
        detections[i].object_id = detections[j].object_id => i = j

\* C3: a track's DetectionEvent is produced when its hits become min_hits: no
\* event is produced with fewer hits, and an event produced with more hits is
\* not the track's first.
EventWhenHitsReachMinHits ==
    \A i \in DOMAIN detections :
        /\ detections[i].hits >= cfg.min_hits
        /\ detections[i].hits > cfg.min_hits =>
              \E k \in 1..(i - 1) :
                  /\ detections[k].object_id = detections[i].object_id
                  /\ detections[k].hits = cfg.min_hits

\* C4: a track is deleted by an update only when it has gone more than
\* max_age consecutive cycles without a match (so a track matched in every
\* window of max_age cycles stays, under its id).
EvictedOnlyAfterMaxAgeMisses ==
    [][\A id \in DOMAIN centroids :
          id \notin DOMAIN centroids' => misses[id] > cfg.max_age]_vars

\* C5: across every update cycle, a live track is gone after the cycle if it
\* had gone more than max_age consecutive cycles without a match, and is
\* still live (in centroids and in track_history) otherwise.
EvictionLaw ==
    [][\A id \in DOMAIN centroids :
          IF misses[id] > cfg.max_age
          THEN id \notin DOMAIN centroids' /\ id \notin DOMAIN track_history'
          ELSE id \in DOMAIN centroids' /\ id \in DOMAIN track_history']_vars

\* C6: a live track's history has 1 to 30 entries, the last one its current
\* centroid; once the track has been given more than 30 centroids the
\* history holds exactly the 30 most recent ones, in order.
HistoryBound ==
    \A id \in DOMAIN centroids :
        LET h == track_history[id]
            a == all_centroids[id]
        IN  /\ Len(h) >= 1 /\ Len(h) <= 30
            /\ h[Len(h)] = centroids[id].centroid
            /\ Len(a) > 30 =>
                  /\ Len(h) = 30
                  /\ \A k \in 1..30 : h[k] = a[Len(a) - 30 + k]
            /\ Len(a) <= 30 => h = a

\* a track that has been given more than 30 centroids
TrackWithLongHistory ==
    \E id \in DOMAIN centroids : Len(all_centroids[id]) > 30

\* C7: with min_hits >= 2, a track that was evicted without ever being
\* matched after its creation has no DetectionEvent.
NoEventForOneFrameTrack ==
    cfg.min_hits >= 2 =>
        \A i \in DOMAIN detections :
            ~ /\ detections[i].object_id \notin DOMAIN centroids
              /\ hits_ever[detections[i].object_id] = 1

\* C8: within one update call no track id is assigned to two detections.
OneDetectionPerTrack ==
    \A i, j \in DOMAIN result.assigned :
        result.assigned[i].id = result.assigned[j].id => i = j

\* C9: the scenario: frame 1 creates track 0 with hits 1; frame 2 matches it,
\* hits 2, and its event is produced; after the empty frames 3, 4, 5 it is
\* live with age 1, 2, 3; the empty frame 6 evicts it.
ScenarioHolds ==
    LET live(a) == 0 \in DOMAIN centroids /\ centroids[0].age = a
        f1 == <<DetA>>
        f2 == <<DetB>>
        f0 == <<>>
    IN  /\ fed = <<f1>> => live(0) /\ centroids[0].hits = 1 /\ created = <<0>>
        /\ fed = <<f1, f2>> =>
              /\ live(0) /\ centroids[0].hits = 2 /\ created = <<0>>
              /\ \E i \in DOMAIN detections : detections[i].object_id = 0
        /\ fed = <<f1, f2, f0>> => live(1)
        /\ fed = <<f1, f2, f0, f0>> => live(2)
        /\ fed = <<f1, f2, f0, f0, f0>> => live(3)
        /\ fed = <<f1, f2, f0, f0, f0, f0>> => 0 \notin DOMAIN centroids

----------------------------------------------------------------------------
(* Claims about the stream workers *)

AllowedTransitions ==
    {<<"connecting", "running">>, <<"connecting", "error">>,
     <<"running", "stopping">>, <<"stopping", "stopped">>,
     <<"running", "error">>}

\* C10: every change of the status of a registry entry, from its creation to
\* its removal, is one of connecting->running, connecting->error,
\* running->stopping, stopping->stopped, running->error.
StatusTransitionsMonotonic ==
    [][\A s \in Streams :
          (/\ s \in DOMAIN active_streams
           /\ s \in DOMAIN active_streams'
           /\ active_streams'[s].task_id = active_streams[s].task_id
           /\ active_streams'[s].status # active_streams[s].status)
          => <<active_streams[s].status, active_streams'[s].status>>
                \in AllowedTransitions]_vars

----------------------------------------------------------------------------
(* Claims about the reconnect budget, the stop cleared and the failures   *)

\* the registry entry of stream s is the one worker w registered
Owns(w, s) == stream_of[w] = s /\ Present(s) /\ active_streams[s].task_id = w

Terminated(w) == pc[w] \in {"done", "crashed"}

\* C11: once a worker has returned with its reconnect budget spent, the
\* status of the entry it registered is error.
ErrorIsTerminal ==
    \A w \in Workers :
        (/\ pc[w] = "done"
         /\ reconnect_count[w] >= ReconnectAttempts
         /\ Owns(w, stream_of[w]))
        => active_streams[stream_of[w]].status = "error"

\* every capture open of worker w has failed
AllOpensFailed(w) == opens[w] > 0 /\ open_run[w] = opens[w]

\* C12, the counts: while every open fails the worker makes at most
\* ReconnectAttempts opens; it is at its write of error, or has terminated,
\* only with exactly ReconnectAttempts opens and ReconnectAttempts - 1 sleeps.
BudgetCounts ==
    \A w \in Workers :
        AllOpensFailed(w) =>
            /\ opens[w] <= ReconnectAttempts
            /\ sleeps[w] <= ReconnectAttempts - 1
            /\ (pc[w] = "set_error" \/ Terminated(w))
               => /\ opens[w] = ReconnectAttempts
                  /\ sleeps[w] = ReconnectAttempts - 1

\* C12, the steps: the handler of the last of ReconnectAttempts failed opens
\* goes on to write error, without a sleep; the handler of an earlier one
\* sleeps once and goes back to open; the write of error stores error in the
\* entry of the stream.
BudgetSteps ==
    \A w \in Workers :
        /\ (AllOpensFailed(w) /\ pc[w] = "except" /\ pc'[w] # "except") =>
              /\ sleeps'[w] = sleeps[w]
              /\ pc'[w] = IF opens[w] = ReconnectAttempts THEN "set_error"
                          ELSE "sleep"
        /\ (AllOpensFailed(w) /\ pc[w] = "sleep" /\ pc'[w] # "sleep") =>
              sleeps'[w] = sleeps[w] + 1 /\ opens'[w] = opens[w]
        /\ (pc[w] = "set_error" /\ pc'[w] # "set_error"
            /\ Present(stream_of[w])) =>
              active_streams'[stream_of[w]].status = "error"

\* C12: with reconnect_attempts = N and every open failing, a worker makes
\* exactly N opens, writes error after the Nth failure and not before, sleeps
\* N-1 times, between the opens, and then terminates.
ReconnectBudget ==
    /\ []BudgetCounts
    /\ [][BudgetSteps]_vars
    /\ \A w \in Workers :
          (AllOpensFailed(w) /\ opens[w] = ReconnectAttempts) ~> Terminated(w)

\* a worker has returned after ReconnectAttempts failed opens and no other
BudgetSpentOnOpens ==
    \E w \in Workers :
        /\ pc[w] = "done" /\ AllOpensFailed(w)
        /\ opens[w] = ReconnectAttempts /\ sleeps[w] = ReconnectAttempts - 1

\* C13: a worker gives up (is about to write error) only when its last
\* ReconnectAttempts opens have all failed.
GivesUpAfterConsecutiveFailures ==
    \A w \in Workers :
        pc[w] = "set_error" => open_run[w] >= ReconnectAttempts

\* the worker w is in its reconnect loop: opening, in its frame loop, or
\* between two opens
InLoop(w) ==
    pc[w] \in {"loop", "open", "set_running", "frame_check", "read", "process",
               "except", "sleep", "finally_retry", "finally_break"}

\* C14: when the status of a stream is stopping and the worker that
\* registered it is in its reconnect loop, the status eventually is stopped.
StopIsNeverLost ==
    \A s \in Streams : \A w \in Workers :
        (Owns(w, s) /\ active_streams[s].status = "stopping" /\ InLoop(w))
        ~> (Present(s) /\ active_streams[s].status = "stopped")

\* C15: no two workers are inside the detector call at once for one model
\* name.
DetectorSerializedPerModel ==
    \A v, w \in Workers :
        (v # w /\ pc[v] = "detect" /\ pc[w] = "detect")
        => config_of[v].model_name # config_of[w].model_name

\* C16: a returned status record is the entry as it stood after a complete
\* update: its last_detection is the time of the last detection counted (none
\* when its counter is 0).
StatusIsConsistentSnapshot ==
    snapshot.found => snapshot.last_detection = snapshot.detections

\* the worker w has passed get_model and tried to open its source
EnteredLoop(w) == opens[w] > 0

\* C17: a worker that has entered its reconnect loop never ends by an
\* exception.
NoExceptionEscapes ==
    \A w \in Workers : EnteredLoop(w) => pc[w] # "crashed"

\* C18: a frame cycle that raises is left for the test of the frame loop,
\* with the capture and the reconnect counter as they were (and not for the
\* handler that counts a reconnect and releases the capture).
DetectorErrorSkipsFrame ==
    [][\A w \in Workers :
          (pc[w] = "process" /\ pc'[w] # "process") =>
              /\ pc'[w] = "frame_check"
              /\ cap'[w] = cap[w]
              /\ reconnect_count'[w] = reconnect_count[w]]_vars

\* C19: the step of a failed read changes nothing but the position of the
\* worker, which is back at the test of the frame loop, and from that test a
\* worker whose stream is still running goes to the next read.
FailedReadChangesNothing ==
    [][\A w \in Workers :
          /\ (pc[w] = "read" /\ pc'[w] # "read" /\ last_read'[w] = "failed") =>
                /\ pc'[w] = "frame_check"
                /\ UNCHANGED <<active_streams, reconnect_count, cap,
                               stream_frame_count, opens, sleeps,
                               detection_results, cleared, not_found, sideVars,
                               trackerVars>>
          /\ (/\ pc[w] = "frame_check" /\ pc'[w] # "frame_check"
              /\ Present(stream_of[w])
              /\ active_streams[stream_of[w]].status = "running") =>
                pc'[w] = "read"]_vars

\* a worker is at its next read after a failed one
ReadAgainAfterFailedRead ==
    \E w \in Workers : pc[w] = "read" /\ last_read[w] = "failed"

\* the configuration of worker w is invalid
InvalidConfig(w) ==
    ~Loadable(config_of[w].model_name) \/ ~config_of[w].classes_known

\* C20: the registry never holds an entry with status connecting that was
\* registered by a worker whose configuration is invalid.
InvalidConfigNeverConnecting ==
    \A w \in Workers :
        InvalidConfig(w) =>
            ~(Owns(w, stream_of[w])
              /\ active_streams[stream_of[w]].status = "connecting")

----------------------------------------------------------------------------
(* More claims about the tracker *)

\* the detections of a frame, with every save succeeding
AllSaved(boxes) == [i \in 1..Len(boxes) |-> [boxes[i] EXCEPT !.save_ok = TRUE]]

\* C21: whatever the tracker state and the detections, an update in which
\* saves fail returns the same assignments, raises in the same cases and
\* leaves the same tracks (centroids, ages, hits), histories and next id as
\* the update in which every save succeeds.
SaveFailureIsContained ==
    \A boxes \in DetLists :
        LET a == Update(cfg, Tracker, boxes)
            b == Update(cfg, Tracker, AllSaved(boxes))
        IN  /\ a.raised = b.raised
            /\ a.assigned = b.assigned
            /\ a.centroids = b.centroids
            /\ a.track_history = b.track_history
            /\ a.next_id = b.next_id

\* the last update had a save that failed, and returned
UpdateReturnedAfterFailedSave == result.unsaved > 0 /\ ~result.raised

\* C23: the class reported for a track id is the same on every cycle: all the
\* DetectionEvents of one id carry one class, and the assignments returned by
\* the last update report, for each id, the class of that id's events.
ClassFixedAtFirstDetection ==
    /\ \A j, k \in DOMAIN detections :
          detections[j].object_id = detections[k].object_id
              => detections[j].class_id = detections[k].class_id
    /\ \A i \in DOMAIN result.assigned : \A k \in DOMAIN detections :
          result.assigned[i].id = detections[k].object_id
              => result.assigned[i].class_id = detections[k].class_id

\* C28: the age of a live track is the number of update cycles since its last
\* match (0 after a cycle in which it is matched, one more after each cycle in
\* which it is not).
AgeIsCyclesSinceMatch ==
    \A id \in DOMAIN centroids : centroids[id].age = misses[id]

\* C29: no call of update raises.
UpdateNeverRaises == ~result.raised

\* C30: every detection associated in the last update was given the id of a
\* track that was live at that moment if and only if some such track was at
\* a distance less than max_distance, and then that of a track at minimum
\* distance; otherwise it was given next_id, the id of no live track.
NearestWithinMaxDistance ==
    \A k \in DOMAIN result.assoc :
        LET a    == result.assoc[k]
            d(i) == DistSq(a.centroid, a.tracks[i])
            near == {i \in DOMAIN a.tracks :
                        d(i) < cfg.max_distance * cfg.max_distance}
        IN  /\ a.id \in DOMAIN a.tracks <=> near # {}
            /\ near # {} =>
                  a.id \in near /\ \A j \in DOMAIN a.tracks : d(a.id) <= d(j)
            /\ near = {} => a.id = a.next_id

\* a detection at exactly max_distance of a live track was given a new id
NewTrackAtMaxDistance ==
    \E k \in DOMAIN result.assoc :
        LET a == result.assoc[k]
        IN  /\ a.id = a.next_id
            /\ \E i \in DOMAIN a.tracks :
                  DistSq(a.centroid, a.tracks[i])
                     = cfg.max_distance * cfg.max_distance

----------------------------------------------------------------------------
(* Claims about the counters, the detection results and the registry *)

\* the worker that wrote the entry of its stream
Counting(w) ==
    /\ pc[w] # "idle"
    /\ Present(stream_of[w])
    /\ active_streams[stream_of[w]].task_id = w

\* C22: the detection counter of a stream's entry, and the detection its
\* last_detection is the time of, is the number of DetectionEvents its tracker
\* has produced.
CountersCountEvents ==
    \A w \in Workers :
        Counting(w) =>
            /\ active_streams[stream_of[w]].detections = Len(detections)
            /\ active_streams[stream_of[w]].last_detection = Len(detections)

\* C24: once the tracker of a stream has produced an event and the stream has
\* not been cleared, get_detections answers with a list that holds the event.
EventsAreVisible ==
    \A w \in Workers :
        (pc[w] # "idle" /\ detections # <<>> /\ stream_of[w] \notin cleared) =>
            LET r == GetDetections(stream_of[w])
            IN  /\ r.code = 200
                /\ \A k \in DOMAIN detections :
                      \E j \in DOMAIN r.detections : r.detections[j] = detections[k]

\* C25: a status request or a stop for a stream that is not in the registry is
\* answered 404 and leaves the registry as it was, without an entry for it.
UnknownIdIsNotFound ==
    [][\A s \in Streams :
          ~Present(s) =>
              /\ GetStreamStatus(s) =>
                    /\ snapshot' = NotFound
                    /\ active_streams' = active_streams
              /\ (StopStream(s) \/ StopStreamNotFound(s)) =>
                    /\ not_found' = s
                    /\ active_streams' = active_streams]_vars

\* a stop was answered 404 while the registry holds another stream
StopAnsweredNotFound ==
    /\ not_found # "none"
    /\ ~Present(not_found)
    /\ active_streams # EmptyMap
    /\ snapshot = NotFound

\* C26: a stream cleared and not started since has no entry in the registry
\* and none in the detection results; when every stream is cleared the status
\* listing is empty.
ClearedStaysCleared ==
    /\ \A s \in cleared : ~Present(s) /\ s \notin DOMAIN detection_results
    /\ cleared = Streams => GetStatus.active_streams = 0

\* the streams for which a start has been accepted
Started == {s \in Streams : \E w \in Workers : pc[w] # "idle" /\ stream_of[w] = s}

\* C27: while no stream is cleared, the status listing holds one entry for
\* each stream whose start has been accepted, and no other.
EntryFromAcceptedStart ==
    cleared = {} =>
        /\ GetStatus.streams = Started
        /\ GetStatus.active_streams = Cardinality(Started)

----------------------------------------------------------------------------
(* Claims about the confidence filter, the decimation, the locks and the   *)
(* captures                                                                *)

\* the detections of a frame whose confidence reaches min_confidence
AboveThreshold(boxes) == SelectSeq(boxes, LAMBDA d : d.conf >= cfg.min_confidence)

\* C31: a detection below min_confidence is not associated and not returned;
\* an update whose detections are all below it returns nothing, creates no
\* track, and only ages or evicts the tracks: the surviving ones keep their
\* centroid, hits and history.
LowConfidenceIsIgnored ==
    [][fed' # fed =>
          LET boxes == fed'[Len(fed')]
              kept  == AboveThreshold(boxes)
          IN  /\ Len(result'.assoc) <= Len(kept)
              /\ \A i \in DOMAIN result'.assigned :
                    result'.assigned[i].confidence >= cfg.min_confidence
              /\ kept = <<>> =>
                    /\ ~result'.raised /\ result'.assigned = <<>>
                    /\ next_id' = next_id
                    /\ detections' = detections
                    /\ DOMAIN centroids' \subseteq DOMAIN centroids
                    /\ \A id \in DOMAIN centroids' :
                          /\ centroids'[id].centroid = centroids[id].centroid
                          /\ centroids'[id].hits = centroids[id].hits
                          /\ centroids'[id].age = centroids[id].age + 1
                          /\ track_history'[id] = track_history[id]]_vars

\* the last update was fed only a detection below min_confidence while a
\* track was live, and the track survived it
LowDetectionFedToLiveTrack ==
    /\ fed # <<>>
    /\ fed[Len(fed)] = <<DetLow>>
    /\ centroids # EmptyMap

\* C33: a worker waiting for its model lock is kept waiting only by workers
\* of its own model name: the holder of the lock of another model name never
\* stops it from entering its detector call.
DifferentModelsDoNotSerialize ==
    \A v, w \in Workers :
        (pc[w] = "acquire" /\ Holds(v, model_lock[w]))
        => config_of[v].model_name = config_of[w].model_name

\* two workers of different model names are inside their detector calls
BothModelsDetecting ==
    \E v, w \in Workers :
        /\ pc[v] = "detect" /\ pc[w] = "detect"
        /\ config_of[v].model_name # config_of[w].model_name

\* a frame has been counted by the worker w in this step
FrameCounted(w) == stream_frame_count'[w] = stream_frame_count[w] + 1

\* daily_frame_count of w at the test of the daily limit in this step: it
\* starts again when the day has changed
DailyAtTest(w) == IF last_day'[w] # last_day[w] THEN 0 ELSE daily_frame_count[w]

SetAlwaysReturns ==
    \A t \in Callers :
        cache_pc[t] = "cleanup_if_needed"
        ~> (cache_pc[t] = "true" /\ memory_lock # t)

\* C38: a call of save_event that has entered its FileLock returns a
\* boolean.
SaveAlwaysReturns ==
    \A t \in Savers :
        (save_pc[t] = "enter" /\ fl_pc[Outer(t)] = "held")
        ~> save_pc[t] \in {"true", "false"}

\* the thread t is inside the with FileLock block of save_event
InsideFileLock(t) == fl_pc[Outer(t)] = "held"

\* C39: at most one thread is inside the FileLock of one file path.
FileLockExcludes ==
    \A t, u \in Savers : (InsideFileLock(t) /\ InsideFileLock(u)) => t = u

\* the worker w holds no capture that it has not released
NoCaptureHeld(w) == cap[w] \in {"none", "released"}

\* C36: a worker that has terminated, by any route, has released every capture
\* it made, and a worker about to make a capture holds none: it never has two
\* at once.
CapturesAreReleased ==
    \A w \in Workers :
        (Terminated(w) \/ pc[w] \in {"loop", "open", "exit_check", "exit_write"})
        => NoCaptureHeld(w)

\* a worker has terminated after it made a second capture, the last one opened
ReleasedAfterReconnect ==
    \E w \in Workers :
        /\ Terminated(w) /\ opens[w] >= 2 /\ open_run[w] = 0
        /\ cap[w] = "released"

\* the worker w has been launched and has not terminated
Executing(w) == pc[w] # "idle" /\ ~Terminated(w)

\* C34: no two workers are executing for one stream id.
OneWorkerPerStream ==
    \A v, w \in Workers :
        (v # w /\ Executing(v) /\ Executing(w)) => stream_of[v] # stream_of[w]

\* get_model has returned to the worker w
GotModel(w) == model_lock[w] # 0

\* C35: the callers of get_model for one model name all return, and with the
\* same lock: the model and its lock are stored once.
GetModelLoadsOnce ==
    /\ \A w \in Workers : pc[w] # "crashed"
    /\ \A v, w \in Workers :
          (GotModel(v) /\ GotModel(w)
             /\ config_of[v].model_name = config_of[w].model_name)
          => model_lock[v] = model_lock[w]

====
